---- MODULE Spec2Model ----
(***************************************************************************)
(* AsyncEsmComponent: the deferred module loader.  One loader (one call   *)
(* of AsyncEsmComponent) with its closure state `promise` and `component`,*)
(* any number of preload() calls, and a bounded number of mounted         *)
(* instances of the returned AsyncComponent, each with its `loaded` state *)
(* and its effect closures (`isMounted`).                                  *)
(*                                                                         *)
(* Host model.  JavaScript runs one job at a time; a promise's reactions   *)
(* are queued as microtasks when it settles (or at once when .then is      *)
(* called on a settled promise) and the microtask queue drains before the  *)
(* next event is handled.  React renders a component synchronously, runs   *)
(* the passive effect of a render later (cleanup of the previous effect    *)
(* first), flushes pending passive effects before the next render or       *)
(* unmount of the component, and runs the last cleanup on unmount.  A     *)
(* setState call with the value the state already has triggers no         *)
(* re-render.  The factory returns a promise (it does not throw), and the *)
(* module it resolves to is of type M.                                     *)
(*                                                                         *)
(* The module also holds DefaultPlaceholder (PlaceholderSpec) and the     *)
(* dashboard-info thunks of dashboard/actions/dashboardInfo.ts            *)
(* (DashSpec); each specification leaves the other parts' variables at    *)
(* their initial values.                                                   *)
(***************************************************************************)
EXTENDS Integers, Sequences, FiniteSets, TLC

\* ---------------------------------------------------------------- bounds
NumInst == 2      \* instance slots that can be mounted at the same time
MaxOps == 2       \* preload() calls + mounts + parent re-renders in a run

Inst == 1..NumInst

\* ---------------------------------------------------------------- values
\* A JavaScript value: a renderable unit (which has no "default" property),
\* an ES module record { default: unit }, null or undefined.
Unit(u) == [kind |-> "unit", unit |-> u]
EsModule(u) == [kind |-> "esm", unit |-> u]
Undefined == [kind |-> "undefined", unit |-> "-"]
Null == [kind |-> "null", unit |-> "-"]

UnitNames == {"X", "Y"}
\* M = ComponentType<P> | { default: ComponentType<P> }
Modules == {Unit(u) : u \in UnitNames} \cup {EsModule(u) : u \in UnitNames}
\* placeholder: ComponentType | null = DefaultPlaceholder
Placeholders == {Null, Unit("DefaultPlaceholder")}

Truthy(v) == v.kind \in {"unit", "esm"}

\* (result as { default? }).default
GetDefault(v) == IF v.kind = "esm" THEN Unit(v.unit) ELSE Undefined

\* Variant: the resolved value is used as it is.
UnwrapNoDefault(r) == r
\* result.default || result
Unwrap(r) ==
    IF Truthy(GetDefault(r)) THEN GetDefault(r) ELSE r

\* ----------------------------------------------------------------- state
VARIABLES
    loadComponent,   \* "factory" or "promise": what AsyncEsmComponent was given
    result,          \* the module the underlying promise resolved to
    placeholder,     \* the placeholder argument
    promise,         \* TRUE once the closure variable `promise` is assigned
    settled,         \* "pending" | "resolved" | "rejected" (underlying promise)
    factoryCalls,    \* number of invocations of loadComponent()
    component,       \* the closure variable `component`
    reactions,       \* callbacks attached with .then, promise still pending
    microtasks,      \* queued promise jobs
    thens,           \* number of .then calls made by the loader
    unhandled,       \* derived promises that rejected with no handler
    mounted,         \* [Inst -> BOOLEAN]
    loaded,          \* [Inst -> BOOLEAN]  the useState value
    dirty,           \* [Inst -> BOOLEAN]  a state update awaits its re-render
    pending,         \* [Inst -> BOOLEAN]  the last render's effect has not run
    capLoaded,       \* [Inst -> BOOLEAN]  `loaded` as seen by the last render
    cur,             \* [Inst -> Nat]      id of the last effect run (0: none)
    alive,           \* ids of the effect closures whose isMounted is true
    nextEff,         \* next effect id
    rendered,        \* [Inst -> output of the last render]
    nPlaceholder,    \* [Inst -> Nat] renders that did not show `component`
    updates,         \* [Inst -> Nat] setLoaded calls that changed the state
    calls,           \* [Inst -> Nat] setLoaded(true) calls of the current mount
    lateUpdate,      \* TRUE once setLoaded was called by a closure that is
                     \* not the current effect of a mounted instance
    ops              \* external operations so far

loaderVars == <<promise, settled, factoryCalls, component, reactions,
                microtasks, thens, unhandled>>
instVars == <<mounted, loaded, dirty, pending, capLoaded, cur, alive, nextEff,
              rendered, nPlaceholder, updates, calls, lateUpdate>>
config == <<loadComponent, result, placeholder>>

\* DefaultPlaceholder
VARIABLES
    props,           \* the PlaceholderProps of the last DefaultPlaceholder call
    element          \* what that call returned

placeholderVars == <<props, element>>

\* The dashboard-info thunks
VARIABLES
    store,           \* getState().dashboardInfo.metadata
    backend,         \* the json_metadata the REST backend holds
    runs,            \* [Runs -> the state of one thunk invocation]
    together         \* history: the pairs of saveChartConfiguration runs
                     \* whose PUTs have been unanswered at the same time

dashVars == <<store, backend, runs, together>>
\* the variables of the specifications other than the loader's
otherVars == <<placeholderVars, dashVars>>
vars == <<config, loaderVars, instVars, ops, otherVars>>

\* JavaScript primitives are written as their source text: "undefined",
\* "null", "true", "false", "0", "200", "''" (the empty string), "'50%'".
JsFalsy == {"undefined", "null", "false", "0", "''"}
JsTruthy(v) == v \notin JsFalsy

NoStyle == [width |-> "undefined", height |-> "undefined"]
NoProps == [width |-> "undefined", height |-> "undefined",
            showLoadingForImport |-> "undefined", placeholderStyle |-> NoStyle]
Unrendered == [tag |-> "unrendered", style |-> NoStyle, loading |-> FALSE]
PlaceholderIdle == props = NoProps /\ element = Unrendered

MaxRuns == 2      \* thunk invocations in a run (they may overlap)
Runs == 1..MaxRuns

MetaKeys == {"chart_configuration", "global_chart_configuration",
             "filter_bar_orientation", "cross_filters_enabled", "color_scheme"}
\* an object with none of the keys
EmptyMeta == [k \in MetaKeys |-> "undefined"]
\* json_metadata: absent, the empty string, or the text of an object
NoJson == [text |-> "undefined", value |-> EmptyMeta]
EmptyJson == [text |-> "''", value |-> EmptyMeta]
NoTheme == [id |-> "undefined", name |-> "undefined"]
NullTheme == [id |-> "null", name |-> "null"]
NoArgs == [a |-> "undefined", b |-> "undefined"]
NoBody == [json_metadata |-> NoJson, theme_id |-> "undefined"]
NoReply == [ok |-> FALSE, error |-> "undefined", json_metadata |-> NoJson,
            theme |-> NoTheme, last_modified_time |-> "undefined"]
IdleRun == [pc |-> "idle", thunk |-> "none", args |-> NoArgs,
            metadata |-> EmptyMeta, body |-> NoBody, reply |-> NoReply,
            log |-> <<>>, outcome |-> "pending", error |-> "undefined"]
DashIdle ==
    /\ store = EmptyMeta
    /\ backend = EmptyMeta
    /\ runs = [r \in Runs |-> IdleRun]
    /\ together = {}

Nothing == [unit |-> Null, ref |-> "none"]

LoaderInit ==
    /\ loadComponent \in {"factory", "promise"}
    /\ result = Undefined
    /\ placeholder \in Placeholders
    /\ promise = FALSE
    /\ settled = "pending"
    /\ factoryCalls = 0
    /\ component = Undefined
    /\ reactions = <<>>
    /\ microtasks = <<>>
    /\ thens = 0
    /\ unhandled = 0
    /\ mounted = [i \in Inst |-> FALSE]
    /\ loaded = [i \in Inst |-> FALSE]
    /\ dirty = [i \in Inst |-> FALSE]
    /\ pending = [i \in Inst |-> FALSE]
    /\ capLoaded = [i \in Inst |-> FALSE]
    /\ cur = [i \in Inst |-> 0]
    /\ alive = {}
    /\ nextEff = 1
    /\ rendered = [i \in Inst |-> Nothing]
    /\ nPlaceholder = [i \in Inst |-> 0]
    /\ updates = [i \in Inst |-> 0]
    /\ calls = [i \in Inst |-> 0]
    /\ lateUpdate = FALSE
    /\ ops = 0

Init == LoaderInit /\ PlaceholderIdle /\ DashIdle

\* ------------------------------------------------------- promise plumbing
SetComponentCb == [type |-> "setComponent", inst |-> 0, eff |-> 0]
SetLoadedCb(i, e) == [type |-> "setLoaded", inst |-> i, eff |-> e]

\* The part of the state waitForPromise and .then work on.
Loader == [promise |-> promise, factoryCalls |-> factoryCalls,
           reactions |-> reactions, microtasks |-> microtasks, thens |-> thens]

\* promise.then(cb): a reaction while pending, a queued job once settled.
Then(s, cb) ==
    IF settled = "pending"
    THEN [s EXCEPT !.reactions = Append(@, cb), !.thens = @ + 1]
    ELSE [s EXCEPT !.microtasks = Append(@, cb), !.thens = @ + 1]

\* Variant: no `if (!promise)` guard.
CreatePromiseAlways(s) ==
    [s EXCEPT !.promise = TRUE,
              !.factoryCalls = IF loadComponent = "factory" THEN @ + 1 ELSE @]
\* Variant: a rejected promise is replaced by a new factory call (a retry).
CreatePromiseRetry(s) ==
    IF ~s.promise \/ settled = "rejected"
    THEN [s EXCEPT !.promise = TRUE,
                   !.factoryCalls = IF loadComponent = "factory" THEN @ + 1 ELSE @]
    ELSE s
\* if (!promise)
\*   promise = loadComponent instanceof Promise ? loadComponent : loadComponent()
CreatePromise(s) ==
    IF ~s.promise
    THEN [s EXCEPT !.promise = TRUE,
                   !.factoryCalls = IF loadComponent = "factory" THEN @ + 1 ELSE @]
    ELSE s

\* Variant: waiters are notified, but the resolved value is not captured.
WaitForPromiseNoCapture(s) == CreatePromise(s)
\* waitForPromise(): returns the loader state after the call.
WaitForPromise(s) ==
    LET s1 == CreatePromise(s)
    IN IF ~Truthy(component) THEN Then(s1, SetComponentCb) ELSE s1

SetLoader(s) ==
    /\ promise' = s.promise
    /\ factoryCalls' = s.factoryCalls
    /\ reactions' = s.reactions
    /\ microtasks' = s.microtasks
    /\ thens' = s.thens

\* External events are handled one job at a time, after the microtask
\* queue of the previous job has drained.
Idle == microtasks = <<>>

\* ------------------------------------------------------------- operations
\* AsyncComponent.preload()
Preload ==
    /\ Idle
    /\ ops < MaxOps
    /\ ops' = ops + 1
    /\ SetLoader(WaitForPromise(Loader))
    /\ UNCHANGED <<otherVars, config, settled, component, unhandled, instVars>>

\* The underlying promise settles with value m: its reactions become
\* queued jobs.
Settle(outcome, m) ==
    /\ Idle
    /\ settled = "pending"
    /\ loadComponent = "factory" => factoryCalls > 0
    /\ settled' = outcome
    /\ result' = m
    /\ microtasks' = microtasks \o reactions
    /\ reactions' = <<>>
    /\ UNCHANGED <<otherVars, loadComponent, placeholder, promise, factoryCalls, component,
                   thens, unhandled, instVars, ops>>

Resolve == \E m \in Modules : Settle("resolved", m)
Reject == Settle("rejected", Undefined)

\* Variant: the ref is passed to whatever is rendered.
RenderOutputAlwaysRef ==
    LET Component == IF Truthy(component) THEN component ELSE placeholder
    IN IF Truthy(Component) THEN [unit |-> Component, ref |-> "ref"] ELSE Nothing
\* const Component = component || placeholder;
\* return Component ? <Component ref={Component === component ? ref : null}/> : null
RenderOutput ==
    LET Component == IF Truthy(component) THEN component ELSE placeholder
    IN IF Truthy(Component)
       THEN [unit |-> Component,
             ref |-> IF Component = component THEN "ref" ELSE "null"]
       ELSE Nothing

ShowsComponent(out) == Truthy(component) /\ out.unit = component

\* One render of instance i, `l` being the value useState returns.
Render(i, l) ==
    /\ rendered' = [rendered EXCEPT ![i] = RenderOutput]
    /\ nPlaceholder' = [nPlaceholder EXCEPT
                          ![i] = IF ShowsComponent(RenderOutput) THEN @ ELSE @ + 1]
    /\ capLoaded' = [capLoaded EXCEPT ![i] = l]
    /\ pending' = [pending EXCEPT ![i] = TRUE]
    /\ dirty' = [dirty EXCEPT ![i] = FALSE]

\* Variant: useState(false).
MountNotLoaded(i) ==
    /\ Idle
    /\ ops < MaxOps
    /\ ~mounted[i]
    /\ \A j \in 1..(i - 1) : mounted[j]
    /\ ops' = ops + 1
    /\ mounted' = [mounted EXCEPT ![i] = TRUE]
    /\ loaded' = [loaded EXCEPT ![i] = FALSE]
    /\ nPlaceholder' = [nPlaceholder EXCEPT
                          ![i] = IF ShowsComponent(RenderOutput) THEN 0 ELSE 1]
    /\ rendered' = [rendered EXCEPT ![i] = RenderOutput]
    /\ capLoaded' = [capLoaded EXCEPT ![i] = FALSE]
    /\ pending' = [pending EXCEPT ![i] = TRUE]
    /\ dirty' = [dirty EXCEPT ![i] = FALSE]
    /\ updates' = [updates EXCEPT ![i] = 0]
    /\ calls' = [calls EXCEPT ![i] = 0]
    /\ UNCHANGED <<otherVars, config, loaderVars, cur, alive, nextEff, lateUpdate>>

\* First render of a new instance, which takes the lowest free slot:
\* useState(component !== undefined).
Mount(i) ==
    /\ Idle
    /\ ops < MaxOps
    /\ ~mounted[i]
    /\ \A j \in 1..(i - 1) : mounted[j]
    /\ ops' = ops + 1
    /\ mounted' = [mounted EXCEPT ![i] = TRUE]
    /\ loaded' = [loaded EXCEPT ![i] = (component # Undefined)]
    /\ nPlaceholder' = [nPlaceholder EXCEPT
                          ![i] = IF ShowsComponent(RenderOutput) THEN 0 ELSE 1]
    /\ rendered' = [rendered EXCEPT ![i] = RenderOutput]
    /\ capLoaded' = [capLoaded EXCEPT ![i] = (component # Undefined)]
    /\ pending' = [pending EXCEPT ![i] = TRUE]
    /\ dirty' = [dirty EXCEPT ![i] = FALSE]
    /\ updates' = [updates EXCEPT ![i] = 0]
    /\ calls' = [calls EXCEPT ![i] = 0]
    /\ UNCHANGED <<otherVars, config, loaderVars, cur, alive, nextEff, lateUpdate>>

\* A re-render requested by the parent (new props).
ParentRerender(i) ==
    /\ Idle
    /\ ops < MaxOps
    /\ mounted[i]
    /\ ~pending[i]
    /\ ops' = ops + 1
    /\ Render(i, loaded[i])
    /\ UNCHANGED <<otherVars, config, loaderVars, mounted, loaded, cur, alive, nextEff,
                   updates, calls, lateUpdate>>

\* The re-render that setLoaded(true) triggered.
StateRerender(i) ==
    /\ mounted[i]
    /\ dirty[i]
    /\ ~pending[i]
    /\ Render(i, loaded[i])
    /\ UNCHANGED <<otherVars, config, loaderVars, mounted, loaded, cur, alive, nextEff,
                   updates, calls, lateUpdate, ops>>

\* Variant: only the caller that creates the promise waits for it.
RunEffectFirstOnly(i) ==
    /\ mounted[i]
    /\ pending[i]
    /\ pending' = [pending EXCEPT ![i] = FALSE]
    /\ cur' = [cur EXCEPT ![i] = nextEff]
    /\ nextEff' = nextEff + 1
    /\ alive' = (alive \ {cur[i]}) \cup {nextEff}       \* isMounted
    /\ IF ~capLoaded[i] /\ ~promise
       THEN SetLoader(Then(WaitForPromise(Loader), SetLoadedCb(i, nextEff)))
       ELSE UNCHANGED <<promise, factoryCalls, reactions, microtasks, thens>>
    /\ UNCHANGED <<otherVars, config, settled, component, unhandled, mounted, loaded,
                   dirty, capLoaded, rendered, nPlaceholder, updates,
                   calls, lateUpdate, ops>>

\* Variant: the guard of the effect is inverted, if (loaded).
RunEffectInverted(i) ==
    /\ mounted[i]
    /\ pending[i]
    /\ pending' = [pending EXCEPT ![i] = FALSE]
    /\ cur' = [cur EXCEPT ![i] = nextEff]
    /\ nextEff' = nextEff + 1
    /\ alive' = (alive \ {cur[i]}) \cup {nextEff}       \* isMounted
    /\ IF capLoaded[i]
       THEN SetLoader(Then(WaitForPromise(Loader), SetLoadedCb(i, nextEff)))
       ELSE UNCHANGED <<promise, factoryCalls, reactions, microtasks, thens>>
    /\ UNCHANGED <<otherVars, config, settled, component, unhandled, mounted, loaded,
                   dirty, capLoaded, rendered, nPlaceholder, updates,
                   calls, lateUpdate, ops>>

\* The passive effect of the last render of instance i: the cleanup of the
\* previous effect, then the body of useEffect.
RunEffect(i) ==
    /\ mounted[i]
    /\ pending[i]
    /\ pending' = [pending EXCEPT ![i] = FALSE]
    /\ cur' = [cur EXCEPT ![i] = nextEff]
    /\ nextEff' = nextEff + 1
    /\ alive' = (alive \ {cur[i]}) \cup {nextEff}       \* isMounted
    /\ IF ~capLoaded[i]
       THEN SetLoader(Then(WaitForPromise(Loader), SetLoadedCb(i, nextEff)))
       ELSE UNCHANGED <<promise, factoryCalls, reactions, microtasks, thens>>
    /\ UNCHANGED <<otherVars, config, settled, component, unhandled, mounted, loaded,
                   dirty, capLoaded, rendered, nPlaceholder, updates,
                   calls, lateUpdate, ops>>

\* Variant: unmounting leaves isMounted true.
UnmountNoCleanup(i) ==
    /\ Idle
    /\ mounted[i]
    /\ ~pending[i]
    /\ mounted' = [mounted EXCEPT ![i] = FALSE]
    /\ alive' = alive
    /\ dirty' = [dirty EXCEPT ![i] = FALSE]
    /\ UNCHANGED <<otherVars, config, loaderVars, loaded, pending, capLoaded, cur, nextEff,
                   rendered, nPlaceholder, updates, calls,
                   lateUpdate, ops>>

\* Variant: one isMounted flag for the whole loader.
UnmountShared(i) ==
    /\ Idle
    /\ mounted[i]
    /\ ~pending[i]
    /\ mounted' = [mounted EXCEPT ![i] = FALSE]
    /\ alive' = {}
    /\ dirty' = [dirty EXCEPT ![i] = FALSE]
    /\ UNCHANGED <<otherVars, config, loaderVars, loaded, pending, capLoaded, cur, nextEff,
                   rendered, nPlaceholder, updates, calls,
                   lateUpdate, ops>>

\* Variant: unmounting drops the cached component.
UnmountReset(i) ==
    /\ Idle
    /\ mounted[i]
    /\ ~pending[i]
    /\ mounted' = [mounted EXCEPT ![i] = FALSE]
    /\ alive' = alive \ {cur[i]}                        \* isMounted = false
    /\ dirty' = [dirty EXCEPT ![i] = FALSE]
    /\ component' = Undefined
    /\ UNCHANGED <<otherVars, config, promise, settled, factoryCalls, reactions,
                   microtasks, thens, unhandled, loaded, pending, capLoaded, cur, nextEff,
                   rendered, nPlaceholder, updates, calls,
                   lateUpdate, ops>>

\* Unmount: the cleanup of the current effect runs (isMounted = false).
Unmount(i) ==
    /\ Idle
    /\ mounted[i]
    /\ ~pending[i]
    /\ mounted' = [mounted EXCEPT ![i] = FALSE]
    /\ alive' = alive \ {cur[i]}                        \* isMounted = false
    /\ dirty' = [dirty EXCEPT ![i] = FALSE]
    /\ UNCHANGED <<otherVars, config, loaderVars, loaded, pending, capLoaded, cur, nextEff,
                   rendered, nPlaceholder, updates, calls,
                   lateUpdate, ops>>

\* setLoaded(true), called by the callback of effect e of instance i.
SetLoaded(i, e) ==
    /\ calls' = [calls EXCEPT ![i] = @ + 1]
    /\ lateUpdate' = (lateUpdate \/ ~mounted[i] \/ cur[i] # e)
    /\ IF mounted[i] /\ ~loaded[i]
       THEN /\ loaded' = [loaded EXCEPT ![i] = TRUE]
            /\ dirty' = [dirty EXCEPT ![i] = TRUE]
            /\ updates' = [updates EXCEPT ![i] = @ + 1]
       ELSE UNCHANGED <<loaded, dirty, updates>>

\* One promise job: the callback at the head of the microtask queue.
RunMicrotask ==
    /\ microtasks # <<>>
    /\ microtasks' = Tail(microtasks)
    /\ LET cb == Head(microtasks) IN
       IF settled = "rejected"
       THEN \* no rejection handler: the derived promise rejects, unhandled
            /\ unhandled' = unhandled + 1
            /\ UNCHANGED <<component, loaded, dirty, updates, calls, lateUpdate>>
       ELSE IF cb.type = "setComponent"
       THEN /\ component' = Unwrap(result)
            /\ UNCHANGED <<unhandled, loaded, dirty, updates, calls, lateUpdate>>
       ELSE /\ IF cb.eff \in alive                         \* if (isMounted)
               THEN SetLoaded(cb.inst, cb.eff)
               ELSE UNCHANGED <<loaded, dirty, updates, calls, lateUpdate>>
            /\ UNCHANGED <<component, unhandled>>
    /\ UNCHANGED <<otherVars, config, promise, settled, factoryCalls, reactions, thens,
                   mounted, pending, capLoaded, cur, alive, nextEff, rendered,
                   nPlaceholder, ops>>

Next ==
    \/ Preload
    \/ Resolve
    \/ Reject
    \/ \E i \in Inst : Mount(i)
    \/ \E i \in Inst : ParentRerender(i)
    \/ \E i \in Inst : StateRerender(i)
    \/ \E i \in Inst : RunEffect(i)
    \/ \E i \in Inst : Unmount(i)
    \/ RunMicrotask

Spec == Init /\ [][Next]_vars

\* React runs the effects and re-renders it has scheduled, and the microtask
\* queue drains; nothing obliges the host to mount, re-render or preload.
FairSpec ==
    /\ Init
    /\ [][Next]_vars
    /\ WF_vars(RunMicrotask)
    /\ \A i \in Inst : WF_vars(RunEffect(i))
    /\ \A i \in Inst : WF_vars(StateRerender(i))

\* ----------------------------------------------------------------- claims
\* instance i was rendered in this step
Rendered(i) == mounted'[i] /\ pending'[i] /\ (~mounted[i] \/ ~pending[i])
\* the loader has asked for the module and the module has arrived
Resolved == promise /\ settled = "resolved"
\* what a render shows while there is no resolved component
PlaceholderOutput ==
    IF placeholder = Null THEN Nothing ELSE [unit |-> placeholder, ref |-> "null"]

\* C1: with a factory function, the factory has not been invoked before the
\* first waitForPromise() call (preload or effect) and has been invoked
\* exactly once after it, whatever the state of the promise.
C1_FactoryOnce ==
    loadComponent = "factory" =>
        factoryCalls = (IF thens = 0 THEN 0 ELSE 1)

C1_Witness ==
    /\ loadComponent = "factory"
    /\ factoryCalls = 1
    /\ thens >= 4
    /\ settled # "pending"
    /\ \E i \in Inst : mounted[i]

\* C2: once `component` is set it keeps its value: it is never emptied and
\* never replaced by another value, however many completion callbacks run.
C2_ComponentMonotonic ==
    [][component # Undefined => component' = component]_vars

\* two completion callbacks were attached by preload() calls and both ran
C2_Witness ==
    /\ component # Undefined
    /\ microtasks = <<>>
    /\ thens >= 2
    /\ nextEff = 1
    /\ settled = "resolved"

\* C10: the resolved component is the unit X both for a module { default: X }
\* and for a module that is X itself.
C10_DefaultUnwrapped ==
    /\ component \in {Undefined, Unit(result.unit)}
    /\ (Resolved /\ Idle) => component = Unit(result.unit)

C10_Witness ==
    /\ result.kind = "esm"
    /\ component = Unit(result.unit)

\* C3: when preload() was called and the promise resolved before an
\* instance is mounted, the mount starts with loaded = true and its first
\* render is the resolved unit; an instance that started loaded has never
\* rendered the placeholder.
C3_NoPlaceholderAfterPreload ==
    /\ [][\A i \in Inst :
            (~mounted[i] /\ mounted'[i] /\ Resolved) =>
                /\ loaded'[i]
                /\ rendered'[i] = [unit |-> Unwrap(result), ref |-> "ref"]
                /\ nPlaceholder'[i] = 0]_vars
    /\ [](\A i \in Inst :
            (mounted[i] /\ loaded[i] /\ updates[i] = 0) => nPlaceholder[i] = 0)

\* preload() only, then the first mount
C3_Witness ==
    \E i \in Inst :
        /\ mounted[i] /\ loaded[i] /\ pending[i]
        /\ updates[i] = 0 /\ nPlaceholder[i] = 0
        /\ nextEff = 1
        /\ rendered[i].unit = component

\* C4: setLoaded is only ever called by the current effect of a mounted
\* instance: no update reaches an instance that was unmounted before the
\* promise resolved.
C4_NoUpdateAfterUnmount == ~lateUpdate

\* instance i showed the placeholder, was unmounted while the promise was
\* pending, and the promise has resolved and all its callbacks have run
C4_Witness ==
    \E i \in Inst :
        /\ ~mounted[i] /\ nPlaceholder[i] > 0 /\ ~loaded[i] /\ calls[i] = 0
        /\ settled = "resolved" /\ component # Undefined /\ Idle

\* C5: an instance mounted before resolution renders the placeholder until
\* the module has arrived and the resolved unit afterwards, and its loaded
\* flag changes to true exactly once (one triggered re-render), however
\* often it was re-rendered while waiting.
C5_PlaceholderThenUnitOnce ==
    /\ [][\A i \in Inst :
            Rendered(i) =>
                rendered'[i] = (IF Resolved
                                THEN [unit |-> Unwrap(result), ref |-> "ref"]
                                ELSE PlaceholderOutput)]_vars
    /\ [](\A i \in Inst :
            /\ updates[i] <= 1
            /\ mounted[i] => (updates[i] = 1 <=> (loaded[i] /\ nPlaceholder[i] > 0))
            /\ (mounted[i] /\ nPlaceholder[i] > 0 /\ ~pending[i] /\ Resolved /\ Idle)
                   => (loaded[i] /\ updates[i] = 1))

\* mounted, re-rendered by the parent while waiting, then updated and
\* re-rendered with the resolved unit
C5_Witness ==
    \E i \in Inst :
        /\ mounted[i] /\ nPlaceholder[i] >= 2 /\ updates[i] = 1
        /\ ~dirty[i] /\ ~pending[i] /\ Idle
        /\ rendered[i].unit = component

\* C6: after a rejection the component stays empty, no instance becomes
\* loaded or renders anything but the placeholder, the factory is not
\* invoked again, and every promise derived by the loader's .then calls
\* rejects without a handler.
C6_RejectionIsFinal ==
    settled = "rejected" =>
        /\ component = Undefined
        /\ loadComponent = "factory" => factoryCalls = 1
        /\ \A i \in Inst :
              mounted[i] => /\ ~loaded[i]
                            /\ rendered[i] = PlaceholderOutput
                            /\ calls[i] = 0
        /\ unhandled + Len(microtasks) = thens

C6_Witness ==
    /\ settled = "rejected"
    /\ Idle
    /\ unhandled >= 3
    /\ \E i \in Inst : mounted[i] /\ ~pending[i] /\ nPlaceholder[i] >= 2

\* the current effect of instance j waits on the pending promise with its
\* isMounted flag still true
LiveCallback(j) ==
    /\ cur[j] \in alive
    /\ \E k \in 1..Len(reactions) : reactions[k] = SetLoadedCb(j, cur[j])

\* C7: unmounting instance i leaves the shared promise, the factory and
\* the other instances' pending updates as they were: while the promise is
\* pending every other mounted instance keeps its live callback, and once
\* the promise has resolved every mounted instance has received its update.
C7_UnmountCancelsOnlyOwnUpdate ==
    /\ [][\A i \in Inst :
            (mounted[i] /\ ~mounted'[i]) =>
                /\ <<promise, settled, factoryCalls, reactions, microtasks>>' =
                      <<promise, settled, factoryCalls, reactions, microtasks>>
                /\ \A j \in Inst \ {i} :
                      /\ (cur[j] \in alive) = (cur[j] \in alive')
                      /\ loaded'[j] = loaded[j]]_vars
    /\ [](\A j \in Inst :
            /\ (settled = "pending" /\ mounted[j] /\ ~pending[j]) => LiveCallback(j)
            /\ (Resolved /\ Idle /\ mounted[j] /\ ~pending[j]) => loaded[j])
    /\ [](factoryCalls <= 1)

\* i and j were mounted together (j's current effect ran before i's last
\* one), i was unmounted while the promise was pending, j got its update
C7_Witness ==
    \E i, j \in Inst :
        /\ i # j
        /\ ~mounted[i] /\ nPlaceholder[i] > 0 /\ ~loaded[i]
        /\ mounted[j] /\ ~pending[j] /\ 0 < cur[j] /\ cur[j] < cur[i]
        /\ loaded[j] /\ updates[j] = 1
        /\ settled = "resolved" /\ Idle

\* C8: under fair scheduling, once the promise has resolved every mounted
\* instance is eventually loaded and showing the one resolved unit, unless
\* it is unmounted first; and the factory is never invoked a second time.
C8_AllInstancesEventuallyLoaded ==
    /\ \A i \in Inst :
          (settled = "resolved" /\ mounted[i]) ~>
              (~mounted[i] \/ (/\ loaded[i]
                               /\ rendered[i] = [unit |-> Unwrap(result),
                                                 ref |-> "ref"]))
    /\ [](factoryCalls <= 1)

\* one instance mounted before the resolution and one after it, both loaded
\* and showing the same unit
C8_Witness ==
    \E i, j \in Inst :
        /\ i # j
        /\ mounted[i] /\ loaded[i] /\ updates[i] = 1
        /\ mounted[j] /\ loaded[j] /\ updates[j] = 0
        /\ rendered[i] = rendered[j]
        /\ rendered[i].unit = component
        /\ factoryCalls <= 1

\* C9: every render passes the ref to the resolved component and to nothing
\* else: the placeholder is rendered with a null ref, and with neither a
\* resolved component nor a placeholder nothing is rendered.
C9_RefOnlyOnResolved ==
    [][\A i \in Inst :
         Rendered(i) =>
            LET out == rendered'[i] IN
            /\ out.ref = "ref" => (component # Undefined /\ out.unit = component)
            /\ component = Undefined =>
                  /\ placeholder # Null => out = [unit |-> placeholder, ref |-> "null"]
                  /\ placeholder = Null => out = Nothing
            /\ out = Nothing => (component = Undefined /\ placeholder = Null)]_vars

\* an instance whose last render is the placeholder, with a null ref
C9_Witness ==
    \E i \in Inst :
        /\ mounted[i]
        /\ placeholder # Null
        /\ rendered[i] = [unit |-> placeholder, ref |-> "null"]
        /\ component = Undefined

\* C16: an instance whose loaded flag is true is never left with the
\* placeholder: the shared component is set whenever a mounted instance is
\* loaded (the callback that sets it is attached, and so runs, before the
\* callback that calls setLoaded).
C16_LoadedImpliesComponent ==
    \A i \in Inst :
        (mounted[i] /\ loaded[i]) =>
            (component # Undefined /\ component = Unwrap(result))

\* an instance that was switched to loaded by its own callback
C16_Witness ==
    \E i \in Inst : mounted[i] /\ loaded[i] /\ updates[i] = 1 /\ calls[i] >= 1

\* ------------------------------------------------------ DefaultPlaceholder
Widths == {"undefined", "100", "'100%'"}
Heights == {"undefined", "0", "''", "200", "'50%'"}
Flags == {"undefined", "false", "true"}
\* placeholderStyle: CSS properties (here: width and height); an absent
\* placeholderStyle spreads like one with no property, NoStyle
Styles == [width : {"undefined", "10"}, height : {"undefined", "50"}]
PlaceholderPropsSet ==
    [width : Widths, height : Heights, showLoadingForImport : Flags,
     placeholderStyle : Styles]

NullElement == [tag |-> "null", style |-> NoStyle, loading |-> FALSE]
\* a falsy value other than null, undefined, false or '' is rendered as text
TextElement(v) == [tag |-> "text " \o v, style |-> NoStyle, loading |-> FALSE]

\* { width, height, ...style }
SpreadStyle(width, height, style) ==
    [width |-> IF style.width # "undefined" THEN style.width ELSE width,
     height |-> IF style.height # "undefined" THEN style.height ELSE height]

\* <div style={{ width, height, ...style }}>
\*   {showLoadingForImport && <Loading position="floating" />}
\* </div>
PlaceholderBox(p) ==
    LET showLoadingForImport ==
            IF p.showLoadingForImport = "undefined" THEN "false"
            ELSE p.showLoadingForImport
    IN [tag |-> "div",
        style |-> SpreadStyle(p.width, p.height, p.placeholderStyle),
        loading |-> JsTruthy(showLoadingForImport)]

\* Variant: without `|| null`.
DefaultPlaceholderNoNull(p) ==
    IF JsTruthy(p.height) THEN PlaceholderBox(p)
    ELSE IF p.height = "0" THEN TextElement("0") ELSE NullElement
\* (height && <div .../>) || null
DefaultPlaceholder(p) ==
    IF JsTruthy(p.height) THEN PlaceholderBox(p) ELSE NullElement

\* React calls DefaultPlaceholder with some props.
RenderDefaultPlaceholder ==
    /\ \E p \in PlaceholderPropsSet :
          /\ props' = p
          /\ element' = DefaultPlaceholder(p)
    /\ UNCHANGED <<config, loaderVars, instVars, ops, dashVars>>

\* the loader, constructed and not used
LoaderIdle ==
    /\ LoaderInit
    /\ loadComponent = "factory"
    /\ placeholder = Unit("DefaultPlaceholder")

PlaceholderInit == LoaderIdle /\ PlaceholderIdle /\ DashIdle
PlaceholderNext == RenderDefaultPlaceholder
PlaceholderSpec == PlaceholderInit /\ [][PlaceholderNext]_vars

\* C11 as stated: nothing for an absent or 0 height; for any other height
\* one box of the supplied width and height, holding the loading indicator
\* exactly when showLoadingForImport is true.
C11_BoxOfSuppliedSize ==
    element # Unrendered =>
        IF props.height \in {"undefined", "0"}
        THEN element = NullElement
        ELSE /\ element.tag = "div"
             /\ element.style = [width |-> props.width, height |-> props.height]
             /\ element.loading = (props.showLoadingForImport = "true")

\* C11, amended: nothing for a falsy height (absent, 0, the empty string);
\* for any other height one box whose style is the supplied width and
\* height with the keys of placeholderStyle spread over them, holding the
\* loading indicator exactly when showLoadingForImport is true.
C11_BoxUnlessFalsyHeight ==
    element # Unrendered =>
        IF props.height \in {"undefined", "0", "''"}
        THEN element = NullElement
        ELSE /\ element.tag = "div"
             /\ \A k \in {"width", "height"} :
                   element.style[k] =
                      (IF props.placeholderStyle[k] # "undefined"
                       THEN props.placeholderStyle[k] ELSE props[k])
             /\ element.loading = (props.showLoadingForImport = "true")

\* a box with the loading indicator whose height comes from placeholderStyle
C11_Witness ==
    /\ element.tag = "div"
    /\ props.height = "200"
    /\ element.style.height = "50"
    /\ element.loading

\* --------------------------------------------------- dashboard-info thunks
\* JSON.stringify of a metadata object and JSON.parse of its text.  A key
\* whose value is undefined is left out of the text and reads as undefined
\* after parsing, so an object is represented by what its keys read as.
Stringify(obj) == [text |-> "object", value |-> obj]
Parse(json) == json.value
\* JSON.parse throws on anything but JSON text
Parses(json) == json.text = "object"
\* if (updatedDashboard.json_metadata): a non-empty string
JsonTruthy(json) == json.text = "object"

\* a ?? b
Coalesce(a, b) == IF a \in {"undefined", "null"} THEN b ELSE a

\* what the store holds when a thunk starts
InitialMetas ==
    {[chart_configuration |-> "c0", global_chart_configuration |-> "g0",
      filter_bar_orientation |-> "VERTICAL", cross_filters_enabled |-> "true",
      color_scheme |-> "blue"]}
\* a metadata object of the server's own making
ServerMeta ==
    [chart_configuration |-> "cS", global_chart_configuration |-> "gS",
     filter_bar_orientation |-> "VERTICAL", cross_filters_enabled |-> "true",
     color_scheme |-> "green"]
Errors == {"E500"}
\* getErrorText(errorObject, 'dashboard')
ErrorText(e) == "text of " \o e
\* `Theme ${themeId}`
ThemeName(themeId) == "Theme " \o themeId
ServerTheme == [id |-> "9", name |-> "Nine"]

\* ---- action creators
Action(type, a, b) == [type |-> type, a |-> a, b |-> b, metadata |-> EmptyMeta]
dashboardInfoChanged(metadata) ==
    [type |-> "DASHBOARD_INFO_UPDATED", a |-> "undefined", b |-> "undefined",
     metadata |-> metadata]
setFilterBarOrientation(filterBarOrientation) ==
    Action("SET_FILTER_BAR_ORIENTATION", filterBarOrientation, "undefined")
setCrossFiltersEnabled(crossFiltersEnabled) ==
    Action("SET_CROSS_FILTERS_ENABLED", crossFiltersEnabled, "undefined")
setDashboardTheme(theme) == Action("SET_DASHBOARD_THEME", theme.id, theme.name)
addDangerToast(text) == Action("ADD_TOAST", text, "danger")
onSave(lastModifiedTime) == Action("ON_SAVE", lastModifiedTime, "undefined")

\* The reducer of DASHBOARD_INFO_UPDATED ("updates partially changed
\* dashboard info"): newInfo.metadata replaces dashboardInfo.metadata.
Reduce(metadata, action) ==
    IF action.type = "DASHBOARD_INFO_UPDATED" THEN action.metadata ELSE metadata

RECURSIVE ReduceAll(_, _)
ReduceAll(metadata, actions) ==
    IF actions = <<>> THEN metadata
    ELSE ReduceAll(Reduce(metadata, Head(actions)), Tail(actions))

\* ---- the request bodies
\* Variant: the arguments are written as they are, undefined included.
SaveChartMetadataNoFallback(metadata, chartConfiguration, globalChartConfiguration) ==
    [metadata EXCEPT
        !["chart_configuration"] = chartConfiguration,
        !["global_chart_configuration"] = globalChartConfiguration]
\* { ...metadata,
\*   chart_configuration: chartConfiguration ?? metadata.chart_configuration,
\*   global_chart_configuration:
\*     globalChartConfiguration ?? metadata.global_chart_configuration }
SaveChartMetadata(metadata, chartConfiguration, globalChartConfiguration) ==
    [metadata EXCEPT
        !["chart_configuration"] = Coalesce(chartConfiguration, @),
        !["global_chart_configuration"] = Coalesce(globalChartConfiguration, @)]

\* { ...metadata, filter_bar_orientation: orientation }
FilterBarMetadata(metadata, orientation) ==
    [metadata EXCEPT !["filter_bar_orientation"] = orientation]

\* { ...metadata, cross_filters_enabled: crossFiltersEnabled }
CrossFiltersMetadata(metadata, crossFiltersEnabled) ==
    [metadata EXCEPT !["cross_filters_enabled"] = crossFiltersEnabled]

\* ---- what each thunk dispatches once its PUT has been answered
\* Variant: the store is updated from the request, not from the response.
saveChartConfigurationThenFromRequest(run) ==
    IF run.reply.ok /\ Parses(run.reply.json_metadata)
    THEN << dashboardInfoChanged(Parse(run.body.json_metadata)),
            Action("SAVE_CHART_CONFIG_COMPLETE", run.args.a, run.args.b) >>
    ELSE << Action("SAVE_CHART_CONFIG_FAIL", run.args.a, run.args.b),
            addDangerToast("Failed to save cross-filter scoping") >>
\* saveChartConfiguration, after the await: the try block, or the catch block
\* when the PUT failed (or JSON.parse threw)
saveChartConfigurationThen(run) ==
    IF run.reply.ok /\ Parses(run.reply.json_metadata)
    THEN << dashboardInfoChanged(Parse(run.reply.json_metadata)),
            Action("SAVE_CHART_CONFIG_COMPLETE", run.args.a, run.args.b) >>
    ELSE << Action("SAVE_CHART_CONFIG_FAIL", run.args.a, run.args.b),
            addDangerToast("Failed to save cross-filter scoping") >>

\* if (lastModifiedTime) dispatch(onSave(lastModifiedTime))
OnSaveIfModified(reply) ==
    IF JsTruthy(reply.last_modified_time)
    THEN << onSave(reply.last_modified_time) >> ELSE << >>

\* Variant: the response's theme is used also when the theme is cleared.
updateDashboardThemeThenResponseFirst(run) ==
    LET themeId == run.args.a IN
    (IF run.reply.theme # NoTheme THEN << setDashboardTheme(run.reply.theme) >>
     ELSE IF themeId = "null" THEN << setDashboardTheme(NullTheme) >>
     ELSE << setDashboardTheme([id |-> themeId, name |-> ThemeName(themeId)]) >>)
    \o OnSaveIfModified(run.reply)
\* updateDashboardTheme, the try block after the await
updateDashboardThemeThen(run) ==
    LET themeId == run.args.a IN
    (IF themeId = "null" THEN << setDashboardTheme(NullTheme) >>
     ELSE IF run.reply.theme # NoTheme THEN << setDashboardTheme(run.reply.theme) >>
     ELSE << setDashboardTheme([id |-> themeId, name |-> ThemeName(themeId)]) >>)
    \o OnSaveIfModified(run.reply)

\* Variant: the orientation that was asked for is dispatched.
saveFilterBarOrientationThenFromRequest(run) ==
    << setFilterBarOrientation(run.args.a) >> \o OnSaveIfModified(run.reply)
\* saveFilterBarOrientation, the try block after the await
saveFilterBarOrientationThen(run) ==
    (IF JsonTruthy(run.reply.json_metadata)
        /\ JsTruthy(Parse(run.reply.json_metadata)["filter_bar_orientation"])
     THEN << setFilterBarOrientation(
                Parse(run.reply.json_metadata)["filter_bar_orientation"]) >>
     ELSE << >>)
    \o OnSaveIfModified(run.reply)

\* saveCrossFiltersSetting, the try block after the await
saveCrossFiltersSettingThen(run) ==
    (IF JsonTruthy(run.reply.json_metadata)
     THEN << setCrossFiltersEnabled(
                Parse(run.reply.json_metadata)["cross_filters_enabled"]) >>
     ELSE << >>)
    \o OnSaveIfModified(run.reply)

\* Variant: the catch block dispatches the toast and swallows the error.
CatchOutcomeSwallow(run) == [outcome |-> "resolved", error |-> "undefined"]
\* dispatch(addDangerToast(errorText)); throw errorObject;
CatchOutcome(run) == [outcome |-> "rejected", error |-> run.reply.error]

\* ---- the thunks, up to their await
loaderFrame == <<config, loaderVars, instVars, ops, placeholderVars>>

\* a new invocation takes the lowest free slot
Free(r) == runs[r].pc = "idle" /\ \A q \in 1..(r - 1) : runs[q].pc # "idle"

\* const { id, metadata } = getState().dashboardInfo, read after the
\* invocation has dispatched what it dispatches before its request
ReadMetadata(dispatched) == ReduceAll(store, dispatched)

\* The invocation has dispatched, read the metadata from the store and sent
\* its PUT.
Sent(r, thunk, a, b, dispatched, body) ==
    /\ runs' = [runs EXCEPT ![r] =
                  [IdleRun EXCEPT !.pc = "sent", !.thunk = thunk,
                                  !.args = [a |-> a, b |-> b],
                                  !.metadata = ReadMetadata(dispatched),
                                  !.body = body,
                                  !.log = dispatched]]
    /\ store' = ReadMetadata(dispatched)
    /\ together' = together \cup
          {{r, q} : q \in {x \in Runs :
                             /\ thunk = "saveChartConfiguration"
                             /\ runs[x].thunk = thunk
                             /\ runs[x].pc = "sent"}}
    /\ UNCHANGED <<backend, loaderFrame>>

saveChartConfiguration(r, chartConfiguration, globalChartConfiguration) ==
    LET begin == << Action("SAVE_CHART_CONFIG_BEGIN", chartConfiguration,
                           globalChartConfiguration) >>
    IN /\ Free(r)
       /\ Sent(r, "saveChartConfiguration", chartConfiguration,
               globalChartConfiguration, begin,
               [NoBody EXCEPT !.json_metadata =
                   Stringify(SaveChartMetadata(ReadMetadata(begin),
                                               chartConfiguration,
                                               globalChartConfiguration))])

updateDashboardTheme(r, themeId) ==
    /\ Free(r)
    /\ Sent(r, "updateDashboardTheme", themeId, "undefined", << >>,
            [NoBody EXCEPT !.theme_id = themeId])

saveFilterBarOrientation(r, orientation) ==
    /\ Free(r)
    /\ Sent(r, "saveFilterBarOrientation", orientation, "undefined", << >>,
            [NoBody EXCEPT !.json_metadata =
                Stringify(FilterBarMetadata(ReadMetadata(<< >>), orientation))])

saveCrossFiltersSetting(r, crossFiltersEnabled) ==
    /\ Free(r)
    /\ Sent(r, "saveCrossFiltersSetting", crossFiltersEnabled, "undefined",
            << >>,
            [NoBody EXCEPT !.json_metadata =
                Stringify(CrossFiltersMetadata(ReadMetadata(<< >>),
                                               crossFiltersEnabled))])

\* ---- the backend
\* the answers the backend can give to the PUT of a run
Replies(run) ==
    LET Ok(json, theme, lmt) ==
            [ok |-> TRUE, error |-> "undefined", json_metadata |-> json,
             theme |-> theme, last_modified_time |-> lmt]
        echo == run.body.json_metadata
    IN {[NoReply EXCEPT !.error = e] : e \in Errors} \cup
       (CASE run.thunk = "saveChartConfiguration" ->
                {Ok(j, NoTheme, "undefined") : j \in {echo, Stringify(ServerMeta)}}
          [] run.thunk = "updateDashboardTheme" ->
                {Ok(NoJson, t, lmt) : t \in {NoTheme, ServerTheme},
                                      lmt \in {"0", "5"}}
          [] OTHER ->
                {Ok(NoJson, NoTheme, "5"), Ok(EmptyJson, NoTheme, "0"),
                 Ok(Stringify(ServerMeta), NoTheme, "5"),
                 Ok(Stringify(EmptyMeta), NoTheme, "0")})

\* The backend answers the PUT of run r; a successful PUT with a
\* json_metadata stores it as received.
ServerReply(r) ==
    /\ runs[r].pc = "sent"
    /\ \E reply \in Replies(runs[r]) :
          /\ runs' = [runs EXCEPT ![r].pc = "replied", ![r].reply = reply]
          /\ backend' = IF reply.ok /\ runs[r].body.json_metadata # NoJson
                        THEN Parse(runs[r].body.json_metadata) ELSE backend
    /\ UNCHANGED <<store, together, loaderFrame>>

\* ---- the thunks, after their await
ThenActions(run) ==
    CASE run.thunk = "saveChartConfiguration" -> saveChartConfigurationThen(run)
      [] run.thunk = "updateDashboardTheme" -> updateDashboardThemeThen(run)
      [] run.thunk = "saveFilterBarOrientation" -> saveFilterBarOrientationThen(run)
      [] OTHER -> saveCrossFiltersSettingThen(run)

\* The try block runs to its end (for saveChartConfiguration: or its catch
\* block does); the async function returns.
Continue(r) ==
    /\ runs[r].pc = "replied"
    /\ runs[r].reply.ok \/ runs[r].thunk = "saveChartConfiguration"
    /\ runs' = [runs EXCEPT ![r].pc = "done",
                            ![r].log = @ \o ThenActions(runs[r]),
                            ![r].outcome = "resolved"]
    /\ store' = ReduceAll(store, ThenActions(runs[r]))
    /\ UNCHANGED <<backend, together, loaderFrame>>

\* The PUT failed: the catch block starts, await getErrorText(...).
Fail(r) ==
    /\ runs[r].pc = "replied"
    /\ ~runs[r].reply.ok /\ runs[r].thunk # "saveChartConfiguration"
    /\ runs' = [runs EXCEPT ![r].pc = "catching"]
    /\ UNCHANGED <<store, backend, together, loaderFrame>>

\* The rest of the catch block: the toast, then throw errorObject.
Catch(r) ==
    /\ runs[r].pc = "catching"
    /\ runs' = [runs EXCEPT
                  ![r].pc = "done",
                  ![r].log = Append(@, addDangerToast(ErrorText(runs[r].reply.error))),
                  ![r].outcome = CatchOutcome(runs[r]).outcome,
                  ![r].error = CatchOutcome(runs[r]).error]
    /\ UNCHANGED <<store, backend, together, loaderFrame>>

\* the arguments the user interface passes: the settings the initial
\* dashboard does not have
Orientations == {"HORIZONTAL"}
CrossFilterSettings == {"false"}

DashInit ==
    /\ LoaderIdle
    /\ PlaceholderIdle
    /\ store \in InitialMetas
    /\ backend = store
    /\ runs = [r \in Runs |-> IdleRun]
    /\ together = {}

DashNext ==
    \/ \E r \in Runs, c \in {"undefined", "C"}, g \in {"undefined", "G"} :
          saveChartConfiguration(r, c, g)
    \/ \E r \in Runs, themeId \in {"null", "7"} : updateDashboardTheme(r, themeId)
    \/ \E r \in Runs, o \in Orientations : saveFilterBarOrientation(r, o)
    \/ \E r \in Runs, e \in CrossFilterSettings : saveCrossFiltersSetting(r, e)
    \/ \E r \in Runs : ServerReply(r)
    \/ \E r \in Runs : Continue(r)
    \/ \E r \in Runs : Fail(r)
    \/ \E r \in Runs : Catch(r)

DashSpec == DashInit /\ [][DashNext]_vars

\* ---- claims about the dashboard-info thunks (checked under DashSpec)
Done(r) == runs[r].pc = "done"
ChartRuns == {r \in Runs : runs[r].thunk = "saveChartConfiguration"}
ChartAction(type, r) == Action(type, runs[r].args.a, runs[r].args.b)

\* C12: every run of saveChartConfiguration dispatches SAVE_CHART_CONFIG_BEGIN
\* first and nothing more until its PUT is settled; it then ends in exactly
\* one of two ways: after a successful PUT with DASHBOARD_INFO_UPDATED
\* carrying the metadata parsed from the response, then
\* SAVE_CHART_CONFIG_COMPLETE; after a failed PUT with SAVE_CHART_CONFIG_FAIL,
\* then one danger toast.  Either way its promise resolves.
C12_SaveChartLifecycle ==
    \A r \in ChartRuns :
        /\ runs[r].outcome # "rejected"
        /\ ~Done(r) =>
              /\ runs[r].log = << ChartAction("SAVE_CHART_CONFIG_BEGIN", r) >>
              /\ runs[r].outcome = "pending"
        /\ Done(r) =>
              /\ runs[r].outcome = "resolved"
              /\ IF runs[r].reply.ok
                 THEN runs[r].log =
                        << ChartAction("SAVE_CHART_CONFIG_BEGIN", r),
                           [type |-> "DASHBOARD_INFO_UPDATED",
                            a |-> "undefined", b |-> "undefined",
                            metadata |-> runs[r].reply.json_metadata.value],
                           ChartAction("SAVE_CHART_CONFIG_COMPLETE", r) >>
                 ELSE runs[r].log =
                        << ChartAction("SAVE_CHART_CONFIG_BEGIN", r),
                           ChartAction("SAVE_CHART_CONFIG_FAIL", r),
                           [type |-> "ADD_TOAST",
                            a |-> "Failed to save cross-filter scoping",
                            b |-> "danger", metadata |-> EmptyMeta] >>

\* one save has succeeded with a response that differs from its request,
\* another has failed
C12_Witness ==
    \E r, q \in ChartRuns :
        /\ Done(r) /\ runs[r].reply.ok
        /\ runs[r].reply.json_metadata # runs[r].body.json_metadata
        /\ Done(q) /\ ~runs[q].reply.ok

RethrowingRuns ==
    {r \in Runs : runs[r].thunk \in {"updateDashboardTheme",
                                     "saveFilterBarOrientation",
                                     "saveCrossFiltersSetting"}}

\* C13: when the PUT of updateDashboardTheme, saveFilterBarOrientation or
\* saveCrossFiltersSetting fails, the run dispatches one danger toast and no
\* other action, and its promise rejects with the error the PUT failed with.
C13_FailureToastsAndRejects ==
    \A r \in RethrowingRuns :
        (runs[r].pc \in {"replied", "catching", "done"} /\ ~runs[r].reply.ok) =>
            IF Done(r)
            THEN /\ Len(runs[r].log) = 1
                 /\ runs[r].log[1].type = "ADD_TOAST"
                 /\ runs[r].log[1].b = "danger"
                 /\ runs[r].outcome = "rejected"
                 /\ runs[r].error = runs[r].reply.error
                 /\ runs[r].error \in Errors
            ELSE runs[r].log = << >> /\ runs[r].outcome = "pending"

\* a failed theme update has rejected after its toast
C13_Witness ==
    \E r \in RethrowingRuns :
        /\ runs[r].thunk = "updateDashboardTheme"
        /\ Done(r) /\ ~runs[r].reply.ok
        /\ runs[r].outcome = "rejected"
        /\ Len(runs[r].log) = 1

MetadataRuns ==
    {r \in Runs : runs[r].thunk \in {"saveChartConfiguration",
                                     "saveFilterBarOrientation",
                                     "saveCrossFiltersSetting"}}
\* the metadata keys a thunk writes
OwnKeys(thunk) ==
    CASE thunk = "saveChartConfiguration" ->
            {"chart_configuration", "global_chart_configuration"}
      [] thunk = "saveFilterBarOrientation" -> {"filter_bar_orientation"}
      [] OTHER -> {"cross_filters_enabled"}

\* the body of a run is what the run read with its own keys overridden
BodyOverridesOwnKeys(run) ==
    LET sent == run.body.json_metadata.value
        read == run.metadata
        a == run.args.a
        b == run.args.b
    IN /\ run.body.json_metadata.text = "object"
       /\ \A k \in MetaKeys \ OwnKeys(run.thunk) : sent[k] = read[k]
       /\ run.thunk = "saveChartConfiguration" =>
             /\ sent["chart_configuration"] =
                   (IF a = "undefined" THEN read["chart_configuration"] ELSE a)
             /\ sent["global_chart_configuration"] =
                   (IF b = "undefined" THEN read["global_chart_configuration"]
                    ELSE b)
       /\ run.thunk = "saveFilterBarOrientation" =>
             sent["filter_bar_orientation"] = a
       /\ run.thunk = "saveCrossFiltersSetting" =>
             sent["cross_filters_enabled"] = a

\* C14: the json_metadata a run of saveChartConfiguration,
\* saveFilterBarOrientation or saveCrossFiltersSetting sends is the metadata
\* the store holds when the run starts with only the run's own keys
\* overridden: every other key is sent as read, the orientation and the
\* cross-filter setting are the argument, and each chart key is its argument
\* or, when that is undefined, the value read from the store.
C14_BodyIsStoreWithOwnKeys ==
    [][\A r \in Runs :
          (runs[r].pc = "idle" /\ runs'[r].pc = "sent"
              /\ runs'[r].thunk # "updateDashboardTheme") =>
                  /\ runs'[r].metadata = store
                  /\ BodyOverridesOwnKeys(runs'[r])]_vars

\* a save of the chart configuration alone has sent the store's global
\* configuration and colour scheme with it
C14_Witness ==
    \E r \in MetadataRuns :
        /\ runs[r].thunk = "saveChartConfiguration"
        /\ runs[r].args = [a |-> "C", b |-> "undefined"]
        /\ runs[r].metadata["global_chart_configuration"] = "g0"
        /\ runs[r].body.json_metadata.value["chart_configuration"] = "C"
        /\ runs[r].body.json_metadata.value["global_chart_configuration"] = "g0"
        /\ runs[r].body.json_metadata.value["color_scheme"] = "blue"

\* two saves, one of the chart configuration C alone and one of the global
\* configuration G alone
TwoSaves(r, q) ==
    /\ r # q
    /\ runs[r].thunk = "saveChartConfiguration"
    /\ runs[r].args = [a |-> "C", b |-> "undefined"]
    /\ runs[q].thunk = "saveChartConfiguration"
    /\ runs[q].args = [a |-> "undefined", b |-> "G"]
\* both have succeeded, each answered with the json_metadata it sent
BothSucceeded(r, q) ==
    /\ TwoSaves(r, q)
    /\ \A x \in {r, q} :
          /\ Done(x) /\ runs[x].reply.ok
          /\ runs[x].reply.json_metadata = runs[x].body.json_metadata
BothChangesKept ==
    /\ backend["chart_configuration"] = "C"
    /\ backend["global_chart_configuration"] = "G"
    /\ store["chart_configuration"] = "C"
    /\ store["global_chart_configuration"] = "G"

\* C15: if saveChartConfiguration({chartConfiguration: C}) and
\* saveChartConfiguration({globalChartConfiguration: G}) are both started
\* before either PUT is answered, and the backend stores each json_metadata
\* as received, then once both have succeeded the backend's metadata and the
\* store's metadata hold both C and G.
C15_NoLostUpdate ==
    \A r, q \in Runs :
        ({r, q} \in together /\ BothSucceeded(r, q)) => BothChangesKept

ThemeRuns == {r \in Runs : runs[r].thunk = "updateDashboardTheme"}
Succeeded(r) == Done(r) /\ runs[r].reply.ok
\* the actions of a log that have one of the types
OfTypes(log, types) == SelectSeq(log, LAMBDA x : x.type \in types)
\* the onSave a successful run ends with: only for a truthy last_modified_time
ExpectedOnSave(r) ==
    IF runs[r].reply.last_modified_time \in {"undefined", "null", "0"}
    THEN << >>
    ELSE << [type |-> "ON_SAVE", a |-> runs[r].reply.last_modified_time,
             b |-> "undefined", metadata |-> EmptyMeta] >>

\* C17: a successful run of updateDashboardTheme(themeId) dispatches exactly
\* one SET_DASHBOARD_THEME, whose theme is null when themeId is null
\* (whatever the response holds), the theme of the response when themeId is
\* not null and the response has one, and otherwise
\* {id: themeId, name: 'Theme <themeId>'}; onSave comes after it, and only
\* when the response has a truthy last_modified_time.
C17_ThemeDispatch ==
    \A r \in ThemeRuns :
        Succeeded(r) =>
            LET themeId == runs[r].args.a
                theme ==
                    IF themeId = "null" THEN [id |-> "null", name |-> "null"]
                    ELSE IF runs[r].reply.theme.id # "undefined"
                         THEN runs[r].reply.theme
                         ELSE [id |-> themeId, name |-> "Theme " \o themeId]
            IN runs[r].log =
                  << [type |-> "SET_DASHBOARD_THEME", a |-> theme.id,
                      b |-> theme.name, metadata |-> EmptyMeta] >>
                  \o ExpectedOnSave(r)

\* the theme has been cleared though the response held a theme, and onSave
\* has followed; another run has synthesized its theme
C17_Witness ==
    \E r, q \in ThemeRuns :
        /\ Succeeded(r) /\ runs[r].args.a = "null"
        /\ runs[r].reply.theme = ServerTheme
        /\ Len(runs[r].log) = 2 /\ runs[r].log[2].type = "ON_SAVE"
        /\ Succeeded(q) /\ runs[q].args.a = "7"
        /\ runs[q].reply.theme = NoTheme
        /\ runs[q].log[1].b = "Theme 7"

SettingTypes == {"SET_FILTER_BAR_ORIENTATION", "SET_CROSS_FILTERS_ENABLED"}

\* C18: after a successful PUT saveFilterBarOrientation and
\* saveCrossFiltersSetting dispatch a setting only from the response, never
\* from the argument: SET_FILTER_BAR_ORIENTATION only when the response has
\* a json_metadata with a truthy filter_bar_orientation, carrying that
\* value; SET_CROSS_FILTERS_ENABLED only when the response has a
\* json_metadata, carrying its cross_filters_enabled; neither when the
\* response has no json_metadata.
C18_SettingsFromResponse ==
    \A r \in Runs :
        (Succeeded(r) /\ runs[r].thunk \in {"saveFilterBarOrientation",
                                            "saveCrossFiltersSetting"}) =>
            LET json == runs[r].reply.json_metadata
                has == json.text \notin {"undefined", "null", "''"}
                settings == OfTypes(runs[r].log, SettingTypes)
            IN /\ runs[r].log = settings \o ExpectedOnSave(r)
               /\ ~has => settings = << >>
               /\ (has /\ runs[r].thunk = "saveFilterBarOrientation") =>
                     settings =
                        IF json.value["filter_bar_orientation"]
                              \in {"undefined", "null", "''"}
                        THEN << >>
                        ELSE << [type |-> "SET_FILTER_BAR_ORIENTATION",
                                 a |-> json.value["filter_bar_orientation"],
                                 b |-> "undefined", metadata |-> EmptyMeta] >>
               /\ (has /\ runs[r].thunk = "saveCrossFiltersSetting") =>
                     settings =
                        << [type |-> "SET_CROSS_FILTERS_ENABLED",
                            a |-> json.value["cross_filters_enabled"],
                            b |-> "undefined", metadata |-> EmptyMeta] >>

\* an orientation other than the one asked for has come back and been
\* dispatched; a cross-filter save answered without json_metadata has
\* dispatched no setting
C18_Witness ==
    \E r, q \in Runs :
        /\ Succeeded(r) /\ runs[r].thunk = "saveFilterBarOrientation"
        /\ runs[r].args.a = "HORIZONTAL"
        /\ Len(runs[r].log) >= 1
        /\ runs[r].log[1].type = "SET_FILTER_BAR_ORIENTATION"
        /\ runs[r].log[1].a = "VERTICAL"
        /\ Succeeded(q) /\ runs[q].thunk = "saveCrossFiltersSetting"
        /\ runs[q].reply.json_metadata = NoJson
        /\ OfTypes(runs[q].log, SettingTypes) = << >>
====
